---- MODULE Spec2Model ----
(***************************************************************************)
(* Model of src/src/sort-lines.ts: the line transformers of the extension  *)
(* (sorters, duplicate filters, shuffle), the indentation tree builder     *)
(* groupByIndentation and the structure-preserving sort built on it.       *)
(*                                                                         *)
(* A line is a sequence of characters (one-character strings, one per code *)
(* point); an array of lines is a sequence of lines.  Arrays are 1-based   *)
(* here and 0-based in the source.  Nodes of the indentation tree live in  *)
(* a heap (a sequence of node records); a reference to a node is its index *)
(* in the heap, so that `stack`, `roots` and `children` can share nodes    *)
(* the way the source's object references do.                              *)
(***************************************************************************)
EXTENDS Integers, Sequences, FiniteSets, TLC

VARIABLES
  document,          \* the selected lines of the document, before the edit
  filterBlankLines,  \* configuration sortLines.filterBlankLines
  lines,             \* the local array `lines` of sortLines / its transformers
  pc,                \* position in the running command
  roots,             \* groupByIndentation: roots (references)
  stack,             \* groupByIndentation: stack (references)
  nodes,             \* the heap of IndentationNode objects
  i                  \* groupByIndentation: number of lines consumed by the loop

vars == <<document, filterBlankLines, lines, pc, roots, stack, nodes, i>>

---------------------------------------------------------------------------
(* Bounds of the model.                                                    *)

MaxLines == 3        \* longest selection handed to a command (Spec)
MaxFilterLines == 4  \* longest selection in the duplicate-filter runs
MaxYamlLines == 3    \* longest selection in the structural-sort runs
MaxIndent == 2       \* deepest indentation of a line in the structural runs

---------------------------------------------------------------------------
(* Characters.                                                             *)

\* The whitespace characters of the alphabet: what \s and trim() match.
WhiteSpace == {" ", "\t"}

Digits == {"1", "2"}

DigitValue(c) == IF c = "1" THEN 1 ELSE 2

\* UTF-16 code unit of a character: the order of `<` and of the default sort.
CodeUnit(c) ==
  CASE c = "\t" -> 9
    [] c = " "  -> 32
    [] c = "1"  -> 49
    [] c = "2"  -> 50
    [] c = "="  -> 61
    [] c = "A"  -> 65
    [] c = "B"  -> 66
    [] c = "a"  -> 97
    [] c = "b"  -> 98

\* Collation element of a character in the root collation used by
\* localeCompare and Intl.Collator: <<group, weight>>, whitespace before
\* symbols before digits before letters; upper and lower case share it.
Primary(c) ==
  CASE c = "\t" -> <<1, 1>>
    [] c = " "  -> <<1, 2>>
    [] c = "="  -> <<2, 1>>
    [] c = "1"  -> <<3, 1>>
    [] c = "2"  -> <<3, 2>>
    [] c \in {"a", "A"} -> <<4, 1>>
    [] c \in {"b", "B"} -> <<4, 2>>

\* Case level of a character: lower case sorts before upper case.
Tertiary(c) == IF c \in {"A", "B"} THEN <<0, 1>> ELSE <<0, 0>>

SetMin(S) == CHOOSE x \in S : \A y \in S : x <= y

SetMax(S) == CHOOSE x \in S : \A y \in S : x >= y

Sign(n) == IF n < 0 THEN -1 ELSE IF n > 0 THEN 1 ELSE 0

---------------------------------------------------------------------------
(* Array helpers of the JavaScript runtime.                                *)

Elems(seq) == {seq[k] : k \in DOMAIN seq}

\* Array.prototype.filter, given the set idx of the indices its predicate
\* accepts: the elements at these indices, in order.
Filter(seq, idx) ==
  LET nth(p) == CHOOSE k \in idx : Cardinality({j \in idx : j < k}) = p - 1
  IN  [p \in 1..Cardinality(idx) |-> seq[nth(p)]]

\* Array.prototype.indexOf / lastIndexOf for an element that is present.
IndexOf(array, element) == SetMin({k \in DOMAIN array : array[k] = element})

LastIndexOf(array, element) == SetMax({k \in DOMAIN array : array[k] = element})

\* Array.from(new Set(array)): a Set keeps each value once, in insertion order.
ArrayFromSet(array) ==
  Filter(array, {k \in DOMAIN array : \A j \in 1..(k - 1) : array[j] # array[k]})

\* A variant of the sort that breaks ties the other way round.
UnstableSort(array, compare) ==
  LET n == Len(array)
      before(j, k) ==
        \/ compare[array[j], array[k]] < 0
        \/ compare[array[j], array[k]] = 0 /\ j > k
      rank(k) == Cardinality({j \in 1..n : before(j, k)}) + 1
  IN  [p \in 1..n |-> array[CHOOSE k \in 1..n : rank(k) = p]]

\* Array.prototype.sort with a consistent comparator, given as a function
\* on pairs of elements: the stable sorted permutation (ECMAScript 2019):
\* an element moves behind exactly the elements that compare smaller, and
\* the equal ones that came before it.
Sort(array, compare) ==
  LET n == Len(array)
      before(j, k) ==
        \/ compare[array[j], array[k]] < 0
        \/ compare[array[j], array[k]] = 0 /\ j < k
      rank(k) == Cardinality({j \in 1..n : before(j, k)}) + 1
  IN  [p \in 1..n |-> array[CHOOSE k \in 1..n : rank(k) = p]]

\* Three-way lexicographic comparison of two sequences of collation
\* elements <<group, weight>>; a proper prefix comes first.
ElementCompare(x, y) ==
  IF x[1] # y[1] THEN Sign(x[1] - y[1]) ELSE Sign(x[2] - y[2])

KeyCompare(s, t) ==
  LET m == IF Len(s) < Len(t) THEN Len(s) ELSE Len(t)
      D == {k \in 1..m : s[k] # t[k]}
  IN  IF D = {} THEN Sign(Len(s) - Len(t))
      ELSE ElementCompare(s[SetMin(D)], t[SetMin(D)])

---------------------------------------------------------------------------
(* Comparators.                                                            *)

\* a < b on strings: by UTF-16 code units.
StringLess(a, b) ==
  KeyCompare([k \in DOMAIN a |-> <<0, CodeUnit(a[k])>>],
             [k \in DOMAIN b |-> <<0, CodeUnit(b[k])>>]) < 0

\* The comparison of lines.sort(undefined).
defaultCompare(a, b) == IF a = b THEN 0 ELSE IF StringLess(a, b) THEN -1 ELSE 1

reverseCompare(a, b) == IF a = b THEN 0 ELSE IF StringLess(a, b) THEN 1 ELSE -1

PrimaryKey(s) == [k \in DOMAIN s |-> Primary(s[k])]

TertiaryKey(s) == [k \in DOMAIN s |-> Tertiary(s[k])]

\* a.localeCompare(b): primary weights first, the case level breaks ties.
localeCompare(a, b) ==
  LET p == KeyCompare(PrimaryKey(a), PrimaryKey(b))
  IN  IF p # 0 THEN p ELSE KeyCompare(TertiaryKey(a), TertiaryKey(b))

\* {sensitivity: 'base'}: primary weights only.
caseInsensitiveCompare(a, b) == KeyCompare(PrimaryKey(a), PrimaryKey(b))

\* Array.from(a).length: the number of code points.
lineLengthCompare(a, b) ==
  LET aLength == Len(a)
      bLength == Len(b)
  IN  IF aLength = bLength THEN 0 ELSE IF aLength > bLength THEN 1 ELSE -1

lineLengthReverseCompare(a, b) == lineLengthCompare(a, b) * (-1)

\* line.match(/(.*)=/): <<>> for null, else <<whole match, capture>>; the
\* greedy (.*) runs up to the last '=' of the line.
MatchUpToEquals(line) ==
  LET eqs == {k \in DOMAIN line : line[k] = "="}
  IN  IF eqs = {} THEN <<>>
      ELSE <<SubSeq(line, 1, SetMax(eqs)), SubSeq(line, 1, SetMax(eqs) - 1)>>

getVariableCharacters(line) ==
  LET match == MatchUpToEquals(line)
  IN  IF match = <<>> THEN line
      ELSE LET last == match[Len(match)]
           IN  IF last = <<>> THEN line ELSE last

variableLengthCompare(a, b) ==
  lineLengthCompare(getVariableCharacters(a), getVariableCharacters(b))

variableLengthReverseCompare(a, b) == variableLengthCompare(a, b) * (-1)

\* Value of the run of digits that starts at position k of s.
RECURSIVE RunValue(_, _, _)
RunValue(s, k, acc) ==
  IF k > Len(s) \/ s[k] \notin Digits THEN acc
  ELSE RunValue(s, k + 1, acc * 10 + DigitValue(s[k]))

\* Collation elements under {numeric: true}: a run of digits is one
\* element, weighted by its value.
NumericKey(s) ==
  LET starts(k) == ~(s[k] \in Digits /\ k > 1 /\ s[k - 1] \in Digits)
      elem == [k \in DOMAIN s |->
                 IF s[k] \in Digits THEN <<3, RunValue(s, k, 0)>> ELSE Primary(s[k])]
  IN  Filter(elem, {k \in DOMAIN s : starts(k)})

naturalCompare(a, b) ==
  LET p == KeyCompare(NumericKey(a), NumericKey(b))
  IN  IF p # 0 THEN p ELSE KeyCompare(TertiaryKey(a), TertiaryKey(b))

---------------------------------------------------------------------------
(* Transformers on arrays of lines.                                        *)

removeDuplicates(array) == ArrayFromSet(array)

\* A variant that keeps the first-seen order of the duplicated values.
keepOnlyDuplicatesFirstSeen(array) ==
  ArrayFromSet(Filter(array,
    {index \in DOMAIN array : Cardinality({k \in DOMAIN array : array[k] = array[index]}) > 1}))

keepOnlyDuplicates(array) ==
  ArrayFromSet(Filter(array, {index \in DOMAIN array : IndexOf(array, array[index]) # index}))

\* A variant that compares against the position itself, not the first one.
keepOnlyNotDuplicatesLast(array) ==
  ArrayFromSet(Filter(array, {index \in DOMAIN array : LastIndexOf(array, array[index]) = index}))

\* A variant with the test inverted.
keepOnlyNotDuplicatesInverted(array) ==
  ArrayFromSet(Filter(array,
    {index \in DOMAIN array : LastIndexOf(array, array[index]) # IndexOf(array, array[index])}))

keepOnlyNotDuplicates(array) ==
  ArrayFromSet(Filter(array,
    {index \in DOMAIN array : LastIndexOf(array, array[index]) = IndexOf(array, array[index])}))

\* String.prototype.trim: without leading and trailing whitespace.
Trim(line) ==
  LET solid == {k \in DOMAIN line : line[k] \notin WhiteSpace}
  IN  IF solid = {} THEN <<>> ELSE SubSeq(line, SetMin(solid), SetMax(solid))

\* array.splice(k, 1)
Splice(array, k) == SubSeq(array, 1, k - 1) \o SubSeq(array, k + 1, Len(array))

\* The loop of removeBlanks from position k on.
RECURSIVE removeBlanksFrom(_, _)
removeBlanksFrom(array, k) ==
  IF k > Len(array) THEN array
  ELSE IF Trim(array[k]) = <<>> THEN removeBlanksFrom(Splice(array, k), k)
       ELSE removeBlanksFrom(array, k + 1)

removeBlanks(array) == removeBlanksFrom(array, 1)

Swap(array, j, k) == [array EXCEPT ![j] = array[k], ![k] = array[j]]

\* The loop of shuffleSorter from index k down: every array a run can
\* return, one for each sequence of values of Math.random.
RECURSIVE shuffleFrom(_, _)
shuffleFrom(array, k) ==
  IF k <= 1 THEN {array}
  ELSE UNION {shuffleFrom(Swap(array, k, rand), k - 1) : rand \in 1..k}

shuffleSorter(array) == shuffleFrom(array, Len(array))

---------------------------------------------------------------------------
(* The indentation tree.                                                   *)

\* line.match(/^(\s*)/)[1]
LeadingWhitespace(line) ==
  LET solid == {k \in DOMAIN line : line[k] \notin WhiteSpace}
  IN  IF solid = {} THEN line ELSE SubSeq(line, 1, SetMin(solid) - 1)

\* indentStr.replace(/\t/g, ' ')
ReplaceTabs(indentStr) ==
  [k \in DOMAIN indentStr |-> IF indentStr[k] = "\t" THEN " " ELSE indentStr[k]]

\* A variant that expands a tab to the width of two spaces.
ExpandTabsLevel(line) ==
  LET indentStr == LeadingWhitespace(line)
  IN  Len(indentStr) + Cardinality({k \in DOMAIN indentStr : indentStr[k] = "\t"})

IndentLevelOf(line) == Len(ReplaceTabs(LeadingWhitespace(line)))

\* A variant of the pop that keeps a node of equal indentation as parent.
RECURSIVE PopStackStrict(_, _, _)
PopStackStrict(stk, heap, indentLevel) ==
  IF Len(stk) > 0 /\ heap[stk[Len(stk)]].indentLevel > indentLevel
  THEN PopStackStrict(SubSeq(stk, 1, Len(stk) - 1), heap, indentLevel)
  ELSE stk

\* while (stack.length > 0 && stack[top].indentLevel >= indentLevel) stack.pop()
RECURSIVE PopStack(_, _, _)
PopStack(stk, heap, indentLevel) ==
  IF Len(stk) > 0 /\ heap[stk[Len(stk)]].indentLevel >= indentLevel
  THEN PopStack(SubSeq(stk, 1, Len(stk) - 1), heap, indentLevel)
  ELSE stk


\* One iteration of the loop of groupByIndentation, on the build state
\* b = [roots, stack, nodes].
GroupLine(b, line) ==
  LET indentLevel == IndentLevelOf(line)
      node == [line |-> line, indentLevel |-> indentLevel, children |-> <<>>]
      ref == Len(b.nodes) + 1
      heap == Append(b.nodes, node)
      popped == PopStack(b.stack, heap, indentLevel)
      top == popped[Len(popped)]
  IN  IF Len(popped) = 0
      THEN [roots |-> Append(b.roots, ref), stack |-> Append(popped, ref), nodes |-> heap]
      ELSE [roots |-> b.roots, stack |-> Append(popped, ref),
            nodes |-> [heap EXCEPT ![top].children = Append(@, ref)]]

RECURSIVE GroupFrom(_, _, _)
GroupFrom(b, array, k) ==
  IF k > Len(array) THEN b ELSE GroupFrom(GroupLine(b, array[k]), array, k + 1)

\* groupByIndentation(lines): the roots and the heap they point into.
groupByIndentation(array) ==
  GroupFrom([roots |-> <<>>, stack |-> <<>>, nodes |-> <<>>], array, 1)

\* A variant that sorts the siblings without regard to their input order.
SortNodeListUnstable(heap, list) ==
  UnstableSort(list, [a, b \in Elems(list) |-> localeCompare(heap[a].line, heap[b].line)])

\* A variant that also drops siblings whose text repeats an earlier one.
SortNodeListUnique(heap, list) ==
  LET sorted == Sort(list, [a, b \in Elems(list) |-> localeCompare(heap[a].line, heap[b].line)])
  IN  Filter(sorted,
        {k \in DOMAIN sorted : \A j \in 1..(k - 1) : heap[sorted[j]].line # heap[sorted[k]].line})

\* nodes.sort((a, b) => a.line.localeCompare(b.line)) on references.
SortNodeList(heap, list) ==
  Sort(list, [a, b \in Elems(list) |-> localeCompare(heap[a].line, heap[b].line)])

\* sortNodesRecursively(list): the sorted list and the heap after the
\* children lists below it were sorted in place.
RECURSIVE sortNodesRecursively(_, _), SortChildrenOf(_, _, _)
sortNodesRecursively(heap, list) ==
  LET sorted == SortNodeList(heap, list)
  IN  [list |-> sorted, heap |-> SortChildrenOf(heap, sorted, 1)]

\* for (const node of nodes) from position k on.
SortChildrenOf(heap, list, k) ==
  IF k > Len(list) THEN heap
  ELSE LET node == list[k]
       IN  IF Len(heap[node].children) > 0
           THEN LET r == sortNodesRecursively(heap, heap[node].children)
                IN  SortChildrenOf([r.heap EXCEPT ![node].children = r.list], list, k + 1)
           ELSE SortChildrenOf(heap, list, k + 1)

\* A variant of the flattening that emits the children before their parent.
RECURSIVE flattenNodesPostOrder(_, _)
flattenNodesPostOrder(heap, list) ==
  IF list = <<>> THEN <<>>
  ELSE LET node == heap[Head(list)]
       IN  flattenNodesPostOrder(heap, node.children) \o <<node.line>>
             \o flattenNodesPostOrder(heap, Tail(list))

RECURSIVE flattenNodes(_, _)
flattenNodes(heap, list) ==
  IF list = <<>> THEN <<>>
  ELSE LET node == heap[Head(list)]
       IN  (IF Len(node.children) > 0
            THEN <<node.line>> \o flattenNodes(heap, node.children)
            ELSE <<node.line>>) \o flattenNodes(heap, Tail(list))

sortYamlPreservingStructure(array) ==
  LET b == groupByIndentation(array)
      s == sortNodesRecursively(b.nodes, b.roots)
  IN  flattenNodes(s.heap, s.list)

---------------------------------------------------------------------------
(* The registry of commands.  A transformer maps an array to the set of    *)
(* arrays it can return (one array, but for the shuffle).                  *)

\* The comparison a sorter was made with; "undefined" for makeSorter().
SortingAlgorithm(algorithm, a, b) ==
  CASE algorithm = "undefined" -> defaultCompare(a, b)
    [] algorithm = "reverseCompare" -> reverseCompare(a, b)
    [] algorithm = "caseInsensitiveCompare" -> caseInsensitiveCompare(a, b)
    [] algorithm = "lineLengthCompare" -> lineLengthCompare(a, b)
    [] algorithm = "lineLengthReverseCompare" -> lineLengthReverseCompare(a, b)
    [] algorithm = "variableLengthCompare" -> variableLengthCompare(a, b)
    [] algorithm = "variableLengthReverseCompare" -> variableLengthReverseCompare(a, b)
    [] algorithm = "naturalCompare" -> naturalCompare(a, b)

\* makeSorter(algorithm)(array): array.sort(algorithm)
makeSorter(algorithm, array) ==
  Sort(array, [a, b \in Elems(array) |-> SortingAlgorithm(algorithm, a, b)])

\* A transformer is <<"makeSorter", algorithm>> or the name of a function.
Transform(transformer, array) ==
  CASE transformer[1] = "makeSorter" -> {makeSorter(transformer[2], array)}
    [] transformer[1] = "shuffleSorter" -> shuffleSorter(array)
    [] transformer[1] = "sortYamlPreservingStructure" -> {sortYamlPreservingStructure(array)}
    [] transformer[1] = "removeDuplicates" -> {removeDuplicates(array)}
    [] transformer[1] = "keepOnlyDuplicates" -> {keepOnlyDuplicates(array)}
    [] transformer[1] = "keepOnlyNotDuplicates" -> {keepOnlyNotDuplicates(array)}

transformerSequences ==
  [sortNormal |-> << <<"makeSorter", "undefined">> >>,
   sortUnique |-> << <<"makeSorter", "undefined">>, <<"removeDuplicates">> >>,
   sortReverse |-> << <<"makeSorter", "reverseCompare">> >>,
   sortCaseInsensitive |-> << <<"makeSorter", "caseInsensitiveCompare">> >>,
   sortCaseInsensitiveUnique |->
     << <<"makeSorter", "caseInsensitiveCompare">>, <<"removeDuplicates">> >>,
   sortLineLength |-> << <<"makeSorter", "lineLengthCompare">> >>,
   sortLineLengthReverse |-> << <<"makeSorter", "lineLengthReverseCompare">> >>,
   sortVariableLength |-> << <<"makeSorter", "variableLengthCompare">> >>,
   sortVariableLengthReverse |-> << <<"makeSorter", "variableLengthReverseCompare">> >>,
   sortNatural |-> << <<"makeSorter", "naturalCompare">> >>,
   sortShuffle |-> << <<"shuffleSorter">> >>,
   sortYamlPreservingStructure |-> << <<"sortYamlPreservingStructure">> >>,
   removeDuplicateLines |-> << <<"removeDuplicates">> >>,
   keepOnlyDuplicateLines |-> << <<"keepOnlyDuplicates">> >>,
   keepOnlyNotDuplicateLines |-> << <<"keepOnlyNotDuplicates">> >>]

\* transformers.reduce((currentLines, transform) => transform(currentLines),
\* lines), from transformer k on.
RECURSIVE Reduce(_, _, _)
Reduce(transformers, array, k) ==
  IF k > Len(transformers) THEN {array}
  ELSE UNION {Reduce(transformers, out, k + 1) : out \in Transform(transformers[k], array)}

\* The array sortLines hands to the transformers: the selected lines,
\* without the blank ones if the configuration says so.
Selected == IF filterBlankLines THEN removeBlanks(document) ELSE document

\* sortLines: read the lines, transform them, replace the selection.
sortLines(command) ==
  /\ pc = "idle"
  /\ \E out \in Reduce(transformerSequences[command], Selected, 1) : lines' = out
  /\ pc' = command
  /\ UNCHANGED <<document, filterBlankLines, roots, stack, nodes, i>>

sortNormal == sortLines("sortNormal")
sortUnique == sortLines("sortUnique")
sortReverse == sortLines("sortReverse")
sortCaseInsensitive == sortLines("sortCaseInsensitive")
sortCaseInsensitiveUnique == sortLines("sortCaseInsensitiveUnique")
sortLineLength == sortLines("sortLineLength")
sortLineLengthReverse == sortLines("sortLineLengthReverse")
sortVariableLength == sortLines("sortVariableLength")
sortVariableLengthReverse == sortLines("sortVariableLengthReverse")
sortNatural == sortLines("sortNatural")
sortShuffle == sortLines("sortShuffle")
sortYaml == sortLines("sortYamlPreservingStructure")
removeDuplicateLines == sortLines("removeDuplicateLines")
keepOnlyDuplicateLines == sortLines("keepOnlyDuplicateLines")
keepOnlyNotDuplicateLines == sortLines("keepOnlyNotDuplicateLines")

---------------------------------------------------------------------------
(* The structural sort, step by step.                                     *)

\* One iteration of the loop of groupByIndentation.
GroupStep ==
  /\ pc = "group"
  /\ i < Len(lines)
  /\ LET b == GroupLine([roots |-> roots, stack |-> stack, nodes |-> nodes], lines[i + 1])
     IN  /\ roots' = b.roots
         /\ stack' = b.stack
         /\ nodes' = b.nodes
  /\ i' = i + 1
  /\ UNCHANGED <<document, filterBlankLines, lines, pc>>

\* groupByIndentation returns; sortNodesRecursively(roots).
SortStep ==
  /\ pc = "group"
  /\ i = Len(lines)
  /\ LET s == sortNodesRecursively(nodes, roots)
     IN  /\ roots' = s.list
         /\ nodes' = s.heap
  /\ stack' = <<>>
  /\ pc' = "sorted"
  /\ UNCHANGED <<document, filterBlankLines, lines, i>>

\* return flattenNodes(roots)
FlattenStep ==
  /\ pc = "sorted"
  /\ lines' = flattenNodes(nodes, roots)
  /\ pc' = "done"
  /\ UNCHANGED <<document, filterBlankLines, roots, stack, nodes, i>>

---------------------------------------------------------------------------
(* Inputs.                                                                 *)

\* All arrays of at most n lines drawn from the set S.
ArraysOf(S, n) == UNION {[1..m -> S] : m \in 0..n}

Repeat(c, n) == [k \in 1..n |-> c]

\* Lines of every kind the comparators tell apart.
CommandLines ==
  { <<"a">>, <<"B">>, <<"=", "a">>, <<"a", "=", "b", "=">>, <<"A", "b", "=", "1">>,
    <<"1", "2">>, <<"2">>, <<" ">> }

FilterLines == { <<"a">>, <<"b">>, <<" ">> }

\* Indented lines: up to MaxIndent spaces or tabs, then nothing or a letter.
YamlLines ==
  { Repeat(c, n) \o body : c \in WhiteSpace, n \in 0..MaxIndent, body \in { <<>>, <<"a">> } }

InitCommand(pool, n) ==
  /\ document \in ArraysOf(pool, n)
  /\ filterBlankLines \in BOOLEAN
  /\ lines = <<>>
  /\ pc = "idle"
  /\ roots = <<>>
  /\ stack = <<>>
  /\ nodes = <<>>
  /\ i = 0

Init == InitCommand(CommandLines, MaxLines)

Next ==
  \/ sortNormal
  \/ sortUnique
  \/ sortReverse
  \/ sortCaseInsensitive
  \/ sortCaseInsensitiveUnique
  \/ sortLineLength
  \/ sortLineLengthReverse
  \/ sortVariableLength
  \/ sortVariableLengthReverse
  \/ sortNatural
  \/ sortShuffle
  \/ sortYaml
  \/ removeDuplicateLines
  \/ keepOnlyDuplicateLines
  \/ keepOnlyNotDuplicateLines

Spec == Init /\ [][Next]_vars

\* The duplicate filters on longer selections of few distinct lines.
InitFilters == InitCommand(FilterLines, MaxFilterLines)

NextFilters ==
  \/ removeDuplicateLines
  \/ keepOnlyDuplicateLines
  \/ keepOnlyNotDuplicateLines

SpecFilters == InitFilters /\ [][NextFilters]_vars

\* sortYamlPreservingStructure(lines) entered with an array of indented lines.
InitYaml ==
  /\ document \in ArraysOf(YamlLines, MaxYamlLines)
  /\ filterBlankLines = FALSE
  /\ lines = document
  /\ pc = "group"
  /\ roots = <<>>
  /\ stack = <<>>
  /\ nodes = <<>>
  /\ i = 0

NextYaml ==
  \/ GroupStep
  \/ SortStep
  \/ FlattenStep

SpecYaml == InitYaml /\ [][NextYaml]_vars

---------------------------------------------------------------------------
(* Vocabulary of the properties.                                           *)

Count(seq, v) == Cardinality({k \in DOMAIN seq : seq[k] = v})

\* Position of a value in an array that holds it once.
PosIn(seq, v) == CHOOSE k \in DOMAIN seq : seq[k] = v

\* Number of leading whitespace characters of a line, counted one by one.
LeadCount(line) ==
  Cardinality({k \in DOMAIN line : \A j \in 1..k : line[j] \in WhiteSpace})

\* The list a parent owns: the roots for 0, the children of node p else.
ListOf(heap, rts, p) == IF p = 0 THEN rts ELSE heap[p].children

\* How often a reference occurs in the lists of the forest.
Occurrences(heap, rts, n) ==
  Cardinality({<<p, k>> \in (0..Len(heap)) \X (1..Len(heap)) :
                 k <= Len(ListOf(heap, rts, p)) /\ ListOf(heap, rts, p)[k] = n})

\* The parent of a node in the forest: 0 for a root.
ParentIn(heap, rts, n) ==
  IF n \in Elems(rts) THEN 0
  ELSE CHOOSE p \in 1..Len(heap) : n \in Elems(heap[p].children)

\* The nearest line before line n with a strictly smaller indentation, or 0.
NearestShallower(array, n) ==
  LET S == {j \in 1..(n - 1) : LeadCount(array[j]) < LeadCount(array[n])}
  IN  IF S = {} THEN 0 ELSE SetMax(S)

\* The references of the forest in pre-order.
RECURSIVE PreOrder(_, _)
PreOrder(heap, list) ==
  IF list = <<>> THEN <<>>
  ELSE LET node == Head(list)
       IN  <<node>> \o PreOrder(heap, heap[node].children) \o PreOrder(heap, Tail(list))

Increasing(seq) == \A a, b \in DOMAIN seq : a < b => seq[a] < seq[b]

Grouped == pc = "group" /\ i = Len(lines)

Sorted == pc \in {"sorted", "done"}

---------------------------------------------------------------------------
(* Properties of the structural sort (SpecYaml).                           *)

\* C1: flattening the forest groupByIndentation built from L, with no sort
\* in between, gives back L element for element.
C1_FlattenAfterGroupIsIdentity ==
  Grouped => flattenNodes(nodes, roots) = lines

C1_Witness ==
  /\ Grouped
  /\ lines = << <<"a">>, <<" ", " ">>, <<"\t", "a">> >>
  /\ Len(roots) = 1
  /\ flattenNodes(nodes, roots) = lines

\* C2: while groupByIndentation runs, the parent of the node of line n is
\* the node of the nearest earlier line with a strictly smaller indentation
\* (a root if there is none), the roots and every children list are in
\* input order, and the stack is strictly increasing in indentLevel.
C2_ParentIsNearestShallower ==
  pc = "group" =>
    /\ Len(nodes) = i
    /\ \A n \in 1..i :
         /\ nodes[n].line = lines[n]
         /\ Occurrences(nodes, roots, n) = 1
         /\ ParentIn(nodes, roots, n) = NearestShallower(lines, n)
    /\ \A p \in 0..i : Increasing(ListOf(nodes, roots, p))
    /\ \A k \in 1..(Len(stack) - 1) :
         nodes[stack[k]].indentLevel < nodes[stack[k + 1]].indentLevel

\* A dedent that skips a level: indentation 1, 2, then 0.
C2_Witness ==
  /\ Grouped
  /\ i = 3
  /\ LeadCount(lines[1]) = 1 /\ LeadCount(lines[2]) = 2 /\ LeadCount(lines[3]) = 0
  /\ roots = <<1, 3>>
  /\ nodes[1].children = <<2>>
  /\ stack = <<3>>

\* C3: sortNodesRecursively leaves every node its parent and its children
\* (only the order inside a list changes), and the flattened result is a
\* permutation of the input with the same number of lines.
C3_SortKeepsParentsAndLines ==
  Sorted =>
    LET g == groupByIndentation(document)
    IN  /\ Len(nodes) = Len(g.nodes)
        /\ \A p \in 0..Len(g.nodes) :
             /\ Len(ListOf(nodes, roots, p)) = Len(ListOf(g.nodes, g.roots, p))
             /\ Elems(ListOf(nodes, roots, p)) = Elems(ListOf(g.nodes, g.roots, p))
        /\ \A n \in 1..Len(g.nodes) : nodes[n].line = g.nodes[n].line
        /\ pc = "done" =>
             /\ Len(lines) = Len(document)
             /\ \A v \in Elems(document) \cup Elems(lines) :
                  Count(lines, v) = Count(document, v)

\* Two roots change places and take their children along.
C3_Witness ==
  /\ pc = "done"
  /\ document = << <<"a">>, <<" ", "a">>, <<>> >>
  /\ lines = << <<>>, <<"a">>, <<" ", "a">> >>
  /\ roots = <<3, 1>>
  /\ nodes[1].children = <<2>>

\* C4: after sortNodesRecursively every list of siblings, at every depth,
\* is in non-decreasing order of the siblings' own lines, and siblings with
\* equal lines are in input order.
C4_SiblingsSortedStably ==
  Sorted =>
    \A p \in 0..Len(nodes) :
      LET list == ListOf(nodes, roots, p)
      IN  \A a, b \in DOMAIN list :
            a < b =>
              /\ localeCompare(nodes[list[a]].line, nodes[list[b]].line) <= 0
              /\ localeCompare(nodes[list[a]].line, nodes[list[b]].line) = 0
                   => list[a] < list[b]

\* Two roots with equal lines, the first of them with a child.
C4_Witness ==
  /\ pc = "sorted"
  /\ document = << <<"a">>, <<" ">>, <<"a">> >>
  /\ roots = <<1, 3>>
  /\ nodes[1].children = <<2>>

\* C9: the indentLevel of a node is the number of leading whitespace
\* characters of its line, a tab counting 1 like a space, so that a line
\* of two spaces and a line of two tabs that follows it are siblings.
C9_IndentLevelCountsCharacters ==
  pc = "group" =>
    /\ \A n \in 1..i : nodes[n].indentLevel = LeadCount(lines[n])
    /\ \A n \in 1..(i - 1), k \in 1..MaxIndent :
         /\ LeadCount(lines[n]) = k /\ \A j \in 1..k : lines[n][j] = " "
         /\ LeadCount(lines[n + 1]) = k /\ \A j \in 1..k : lines[n + 1][j] = "\t"
         => /\ nodes[n].indentLevel = nodes[n + 1].indentLevel
            /\ ParentIn(nodes, roots, n) = ParentIn(nodes, roots, n + 1)

C9_Witness ==
  /\ Grouped
  /\ lines = << <<"a">>, <<" ", " ", "a">>, <<"\t", "\t", "a">> >>
  /\ nodes[3].indentLevel = 2
  /\ nodes[1].children = <<2, 3>>

\* C10: the flattened result carries the hierarchy of the sorted forest:
\* grouping it again gives every line the parent it had, and the
\* structural sort of the result is the result itself.
C10_ResultKeepsHierarchy ==
  pc = "done" =>
    LET g == groupByIndentation(lines)
        order == PreOrder(nodes, roots)
        orig(k) == IF k = 0 THEN 0 ELSE order[k]
    IN  /\ \A k \in DOMAIN lines :
             orig(ParentIn(g.nodes, g.roots, k)) = ParentIn(nodes, roots, order[k])
        /\ sortYamlPreservingStructure(lines) = lines

---------------------------------------------------------------------------
(* Properties of the duplicate filters (SpecFilters).                      *)

\* C5: keepOnlyDuplicates(L) and keepOnlyNotDuplicates(L) hold no value
\* twice and none in common; a value is in the first iff it occurs at
\* least twice in L and in the second iff it occurs exactly once.
C5_FiltersPartitionValues ==
  pc \in {"keepOnlyDuplicateLines", "keepOnlyNotDuplicateLines"} =>
    LET L == Selected
        dups == IF pc = "keepOnlyDuplicateLines" THEN lines ELSE keepOnlyDuplicates(L)
        uniq == IF pc = "keepOnlyNotDuplicateLines" THEN lines ELSE keepOnlyNotDuplicates(L)
    IN  /\ \A v \in Elems(dups) : Count(dups, v) = 1
        /\ \A v \in Elems(uniq) : Count(uniq, v) = 1
        /\ Elems(dups) \cap Elems(uniq) = {}
        /\ Elems(dups) \cup Elems(uniq) = Elems(L)
        /\ \A v \in Elems(L) :
             /\ v \in Elems(dups) <=> Count(L, v) >= 2
             /\ v \in Elems(uniq) <=> Count(L, v) = 1

C5_Witness ==
  /\ pc = "keepOnlyNotDuplicateLines"
  /\ ~filterBlankLines
  /\ document = << <<"a">>, <<"b">>, <<"a">>, <<" ">> >>
  /\ lines = << <<"b">>, <<" ">> >>
  /\ keepOnlyDuplicates(document) = << <<"a">> >>

\* The position of the second occurrence of a value in an array.
SecondIndexOf(array, v) ==
  SetMin({k \in DOMAIN array : array[k] = v /\ k # IndexOf(array, v)})

\* C6 as stated: the values keepOnlyDuplicates retains are in the order of
\* their first occurrences in L.
C6_FirstSeenOrder ==
  pc = "keepOnlyDuplicateLines" =>
    \A x, y \in Elems(lines) :
      IndexOf(Selected, x) < IndexOf(Selected, y) => PosIn(lines, x) < PosIn(lines, y)

\* C6 amended: the values keepOnlyDuplicates retains are in the order of
\* their second occurrences in L.
C6_SecondSeenOrder ==
  pc = "keepOnlyDuplicateLines" =>
    /\ Elems(lines) = {v \in Elems(Selected) : Count(Selected, v) >= 2}
    /\ \A x, y \in Elems(lines) :
         SecondIndexOf(Selected, x) < SecondIndexOf(Selected, y)
           => PosIn(lines, x) < PosIn(lines, y)

C6_Witness ==
  /\ pc = "keepOnlyDuplicateLines"
  /\ Selected = << <<"a">>, <<"b">>, <<"b">>, <<"a">> >>
  /\ lines = << <<"b">>, <<"a">> >>

---------------------------------------------------------------------------
(* Properties of the commands (Spec).                                      *)

\* C7 as stated: every command returns a selection of one line unchanged.
C7_SingleLineUnchanged ==
  pc # "idle" /\ Len(Selected) = 1 => lines = Selected

\* C7 amended: every command but keepOnlyDuplicateLines returns a selection
\* of one line unchanged, keepOnlyDuplicateLines returns the empty array
\* for it, and every command returns the empty selection unchanged.
C7_SingleLineUnchangedButDuplicates ==
  pc # "idle" /\ Len(Selected) <= 1 =>
    IF pc = "keepOnlyDuplicateLines" THEN lines = <<>> ELSE lines = Selected

C7_Witness ==
  /\ pc = "keepOnlyDuplicateLines"
  /\ Selected = << <<"a">> >>
  /\ lines = <<>>

\* The key the variable-length comparison is stated to use: the whole line
\* without '=', the text before the last '=' else.
KeyBeforeLastEquals(line) ==
  LET eqs == {k \in DOMAIN line : line[k] = "="}
  IN  IF eqs = {} THEN line ELSE SubSeq(line, 1, SetMax(eqs) - 1)

\* C8: getVariableCharacters returns the whole line without '=' and the
\* text before the last '=' else (the empty string for a line whose only
\* '=' comes first); sortVariableLength orders the lines by the length of
\* that key and sortVariableLengthReverse the other way round.
C8_OrderedByKeyBeforeLastEquals ==
  /\ pc \in {"sortVariableLength", "sortVariableLengthReverse"} =>
       \A k \in DOMAIN lines : getVariableCharacters(lines[k]) = KeyBeforeLastEquals(lines[k])
  /\ pc = "sortVariableLength" =>
       \A a, b \in DOMAIN lines :
         a < b => Len(KeyBeforeLastEquals(lines[a])) <= Len(KeyBeforeLastEquals(lines[b]))
  /\ pc = "sortVariableLengthReverse" =>
       \A a, b \in DOMAIN lines :
         a < b => Len(KeyBeforeLastEquals(lines[a])) >= Len(KeyBeforeLastEquals(lines[b]))

====
